---- MODULE Spec2Model ----
(***************************************************************************)
(* The whiteboard canvas of src/src/index.ts (class Canvas, lines 202-348, *)
(* with the generator getRandomColor and the host function Main).          *)
(* Pointer events, the image "load" callback and the public methods are    *)
(* the actions; the fields of Canvas, the 2d context and the overlay       *)
(* container are the state.                                                *)
(***************************************************************************)
EXTENDS Integers, Sequences, FiniteSets, TLC

\* ------------------------------------------------------------------ bounds
MaxBoxes == 2       \* length of the committed list at which no further item is added
MaxListeners == 2   \* number of save listeners that may be registered
MaxCalls == 2       \* calls of the colour generator after which no new drag gets a colour
MaxOverlays == 1    \* overlays after which no further pointer-up is taken
MaxDrags == 5       \* committed drags of the specification that only drags

\* The offsets <<left, top>> getBoundingClientRect() may report for the canvas.
Offsets == {<<0, 0>>, <<1, 2>>}

\* ------------------------------------------------------------ JS values
Infinity == 1000000
Undefined == "undefined"
NoItem == [kind |-> Undefined]
DefaultStroke == "#000000"

\* a - b on JS numbers, for a finite or -Infinity a and a finite or Infinity b
NumSub(a, b) ==
  IF a = 0 - Infinity \/ b = Infinity THEN 0 - Infinity ELSE a - b

\* Math.ceil(n / 2) for an integer n
CeilHalf(n) == 0 - ((0 - n) \div 2)

Box(posX, posY, width, height, color) ==
  [posX |-> posX, posY |-> posY, width |-> width, height |-> height, color |-> color]

ImageItem(image) == [image |-> image]

isBox(item) == "posX" \in DOMAIN item

googColors == <<"blue", "red", "yellow", "green">>

VARIABLES
  mounted,         \* setup() has registered the pointer handlers
  boxes,           \* Canvas.boxes
  currentBox,      \* Canvas.currentBox
  xstartPosition,  \* Canvas.xstartPosition
  ystartPosition,  \* Canvas.ystartPosition
  canDraw,         \* Canvas.canDraw
  currentColor,    \* Canvas.currentColor
  currentNumber,   \* the counter inside the generator colorGenerator
  saveCallbacks,   \* Canvas.saveCallbacks, each listener named by its behaviour
  strokeStyle,     \* ctx.strokeStyle
  surface,         \* what the context has painted since the last clearRect
  loaded,          \* images whose data has arrived
  overlays,        \* the overlay elements appended to the container
  \* observations of the most recent handler
  lastEvent,       \* which handler ran last
  refreshes,       \* how many times it called refresh()
  invoked,         \* the listener calls it made, in order
  nextCalls,       \* how many times next() has been called on the generator
  lastYield,       \* the value the last next() returned
  hDown,           \* surface-local position of the last pointer-down since the last pointer-up
  hMove,           \* surface-local position of the last drawing pointer-move since hDown
  moved,           \* a drawing pointer-move has happened since the last pointer-up
  vetoSince        \* rectangles committed when the first always-false listener was
                   \* registered; -1 while there is none

progVars == <<boxes, currentBox, xstartPosition, ystartPosition, canDraw,
              currentColor, currentNumber, saveCallbacks>>
vars == <<mounted, boxes, currentBox, xstartPosition, ystartPosition, canDraw,
          currentColor, currentNumber, saveCallbacks, strokeStyle, surface,
          loaded, overlays, lastEvent, refreshes, invoked, nextCalls,
          lastYield, hDown, hMove, moved, vetoSince>>

None == <<>>

Init ==
  /\ mounted = FALSE
  /\ boxes = <<>>
  /\ currentBox = NoItem
  /\ xstartPosition = 0
  /\ ystartPosition = 0
  /\ canDraw = FALSE
  /\ currentColor = Undefined
  /\ currentNumber = 0
  /\ saveCallbacks = <<>>
  /\ strokeStyle = DefaultStroke
  /\ surface = <<>>
  /\ loaded = {}
  /\ overlays = <<>>
  /\ lastEvent = "new"
  /\ refreshes = 0
  /\ invoked = <<>>
  /\ nextCalls = 0
  /\ lastYield = Undefined
  /\ hDown = None
  /\ hMove = None
  /\ moved = FALSE
  /\ vetoSince = -1

\* ------------------------------------------------------------ the generator
\* A generator that yields before it counts.
GenNextStale(n) ==
  [currentNumber |-> n + 1, value |-> googColors[(n % Len(googColors)) + 1]]

\* One call of next() on getRandomColor: the counter after it and the value yielded.
GenNext(n) ==
  LET m == n + 1
  IN  [currentNumber |-> m, value |-> googColors[(m % Len(googColors)) + 1]]

\* ------------------------------------------------------- drawing primitives
\* The part of the state a render pass works on.
Pen == [surface |-> surface, strokeStyle |-> strokeStyle, currentColor |-> currentColor]

\* ctx.strokeStyle ignores a value that is no colour; the field takes any value.
SetColor(color, pen) ==
  [pen EXCEPT !.strokeStyle = IF color = Undefined THEN @ ELSE color,
              !.currentColor = color]

StrokeRect(x, y, w, h, pen) ==
  [pen EXCEPT !.surface = Append(@, [op |-> "strokeRect", x |-> x, y |-> y,
                                     w |-> w, h |-> h, style |-> pen.strokeStyle])]

\* drawImage paints nothing while the image's data has not arrived.
DrawImage(image, pen, ready) ==
  IF image \in ready
  THEN [pen EXCEPT !.surface = Append(@, [op |-> "drawImage", image |-> image])]
  ELSE pen

ClearRect(pen) == [pen EXCEPT !.surface = <<>>]

\* A render pass that leaves each rectangle's colour as the current colour.
RECURSIVE RefreshFromNoRestore(_, _, _)
RefreshFromNoRestore(i, pen, ready) ==
  IF i > Len(boxes) THEN pen
  ELSE LET box == boxes[i]
       IN  IF isBox(box)
           THEN LET p1 == SetColor(box.color, pen)
                IN  RefreshFromNoRestore(i + 1,
                      StrokeRect(box.posX, box.posY, box.width, box.height, p1), ready)
           ELSE RefreshFromNoRestore(i + 1, DrawImage(box.image, pen, ready), ready)

RECURSIVE RefreshFrom(_, _, _)
RefreshFrom(i, pen, ready) ==
  IF i > Len(boxes) THEN pen
  ELSE LET box == boxes[i]
       IN  IF isBox(box)
           THEN LET previousColor == pen.currentColor
                    p1 == SetColor(box.color, pen)
                    p2 == StrokeRect(box.posX, box.posY, box.width, box.height, p1)
                IN  RefreshFrom(i + 1, SetColor(previousColor, p2), ready)
           ELSE RefreshFrom(i + 1, DrawImage(box.image, pen, ready), ready)

\* A render pass that paints over what is on the surface.
RefreshNoClear(pen, ready) == RefreshFrom(1, pen, ready)

\* refresh(), with the set of images whose data has arrived
Refresh(pen, ready) == RefreshFrom(1, ClearRect(pen), ready)

\* ------------------------------------------------------------ save listeners
\* A listener is named by what it does with the box it is given:
\*   veto    returns false;
\*   ask     returns true or false or throws, as its environment decides;
\*   overlay the listener Main registers: reads the box, adds an overlay, returns true.
ListenerKinds == {"veto", "ask", "overlay"}
Results == {"true", "false", "throw"}

\* The results a listener may produce for the argument it is called with.
Allowed(kind, box) ==
  CASE kind = "veto"    -> {"false"}
    [] kind = "ask"     -> Results
    [] kind = "overlay" -> IF isBox(box) THEN {"true"} ELSE {"throw"}

\* The overlay addOverlay builds for the box the Main listener is given.
Overlay(box) ==
  [left  |-> box.posX + CeilHalf(box.width) - 50,
   top   |-> box.posY + CeilHalf(box.height) - 50,
   color |-> box.color]

\* The results of one evaluation of the chain, one per listener, if it were called.
Outcomes ==
  {out \in [1..Len(saveCallbacks) -> Results] :
     \A i \in 1..Len(saveCallbacks) : out[i] \in Allowed(saveCallbacks[i], currentBox)}

\* The state saveCurrentBox works on.
Saving == [boxes |-> boxes, currentBox |-> currentBox, invoked |-> <<>>,
           overlays |-> overlays, escaped |-> FALSE]

\* A push without the test that there is a box to push.
SavePushAlways(sv) ==
  [sv EXCEPT !.boxes = Append(@, sv.currentBox), !.currentBox = NoItem]

SavePush(sv) ==
  IF sv.currentBox # NoItem
  THEN [sv EXCEPT !.boxes = Append(@, sv.currentBox), !.currentBox = NoItem]
  ELSE sv

\* An error that is not caught leaves saveCurrentBox.
Uncaught(sv) == [sv EXCEPT !.escaped = TRUE]

\* The catch clause: the error is logged and saveCurrentBox returns normally.
Caught(sv) == sv

Called(i, out, sv) ==
  [sv EXCEPT !.invoked = Append(@, [listener |-> i, result |-> out[i]]),
             !.overlays = IF saveCallbacks[i] = "overlay" /\ out[i] = "true"
                          THEN Append(@, Overlay(sv.currentBox)) ELSE @]

\* A loop that a false result leaves by break: the push after it still runs.
RECURSIVE SaveFromBreak(_, _, _)
SaveFromBreak(i, out, sv) ==
  IF i > Len(saveCallbacks) THEN SavePush(sv)
  ELSE LET called == Called(i, out, sv)
       IN  IF out[i] = "throw" THEN Caught(called)
           ELSE IF out[i] = "true" THEN SaveFromBreak(i + 1, out, called)
           ELSE SavePush(called)

\* A loop that calls every listener and pushes only if none refused.
RECURSIVE SaveFromAll(_, _, _)
SaveFromAll(i, out, sv) ==
  IF i > Len(saveCallbacks)
  THEN IF \A j \in 1..Len(sv.invoked) : sv.invoked[j].result = "true"
       THEN SavePush(sv) ELSE sv
  ELSE LET called == Called(i, out, sv)
       IN  IF out[i] = "throw" THEN Caught(called)
           ELSE SaveFromAll(i + 1, out, called)

RECURSIVE SaveFrom(_, _, _)
SaveFrom(i, out, sv) ==
  IF i > Len(saveCallbacks) THEN SavePush(sv)
  ELSE LET called == Called(i, out, sv)
       IN  IF out[i] = "throw" THEN Caught(called)
           ELSE IF out[i] = "true" THEN SaveFrom(i + 1, out, called)
           ELSE called   \* if(!res) return

SaveCurrentBox(out) == SaveFrom(1, out, Saving)

\* ------------------------------------------------------------ the handlers
\* A pointer event: the client position and the canvas offset at that moment.
Event(clientX, clientY, left, top) ==
  [clientX |-> clientX, clientY |-> clientY, left |-> left, top |-> top]

\* A correction that ignores where the canvas is.
NoCorrection(e) == 0

xCorrection(e) == e.left
yCorrection(e) == e.top

\* The position of an event relative to the canvas.
Local(e) == <<e.clientX - e.left, e.clientY - e.top>>

Setup ==
  /\ ~mounted
  /\ mounted' = TRUE
  /\ lastEvent' = "setup"
  /\ refreshes' = 0
  /\ UNCHANGED <<progVars, strokeStyle, surface, loaded, overlays, invoked,
                 nextCalls, lastYield, hDown, hMove, moved, vetoSince>>

\* A picture put under everything drawn so far.
SetPictureFirst(image) ==
  /\ boxes' = <<ImageItem(image)>> \o boxes
  /\ lastEvent' = "setPicture"
  /\ refreshes' = 0
  /\ UNCHANGED <<mounted, currentBox, xstartPosition, ystartPosition, canDraw,
                 currentColor, currentNumber, saveCallbacks, strokeStyle, surface,
                 loaded, overlays, invoked, nextCalls, lastYield, hDown, hMove, moved, vetoSince>>

SetPicture(image) ==
  /\ boxes' = Append(boxes, ImageItem(image))
  /\ lastEvent' = "setPicture"
  /\ refreshes' = 0
  /\ UNCHANGED <<mounted, currentBox, xstartPosition, ystartPosition, canDraw,
                 currentColor, currentNumber, saveCallbacks, strokeStyle, surface,
                 loaded, overlays, invoked, nextCalls, lastYield, hDown, hMove, moved, vetoSince>>

\* image.onload: the data of a pushed image has arrived
OnLoad(image) ==
  LET pen == Refresh(Pen, loaded \cup {image})
  IN  /\ loaded' = loaded \cup {image}
      /\ surface' = pen.surface
      /\ strokeStyle' = pen.strokeStyle
      /\ currentColor' = pen.currentColor
      /\ lastEvent' = "load"
      /\ refreshes' = 1
      /\ UNCHANGED <<mounted, boxes, currentBox, xstartPosition, ystartPosition,
                     canDraw, currentNumber, saveCallbacks, overlays, invoked,
                     nextCalls, lastYield, hDown, hMove, moved, vetoSince>>

AddSaveListener(callback) ==
  /\ saveCallbacks' = Append(saveCallbacks, callback)
  /\ lastEvent' = "addSaveListener"
  /\ refreshes' = 0
  /\ vetoSince' = IF callback = "veto" /\ vetoSince = -1
                  THEN Cardinality({i \in 1..Len(boxes) : isBox(boxes[i])})
                  ELSE vetoSince
  /\ UNCHANGED <<mounted, boxes, currentBox, xstartPosition, ystartPosition, canDraw,
                 currentColor, currentNumber, strokeStyle, surface, loaded, overlays,
                 invoked, nextCalls, lastYield, hDown, hMove, moved>>

OnMouseUp(out) ==
  LET sv == SaveCurrentBox(out)
  IN  /\ canDraw' = FALSE
      /\ xstartPosition' = Infinity
      /\ ystartPosition' = Infinity
      /\ boxes' = sv.boxes
      /\ currentBox' = sv.currentBox
      /\ overlays' = sv.overlays
      /\ invoked' = sv.invoked
      \* an error leaving saveCurrentBox would skip the rest of the handler
      /\ currentColor' = IF sv.escaped THEN currentColor ELSE Undefined
      /\ lastEvent' = "up"
      /\ refreshes' = 0
      /\ hDown' = None
      /\ hMove' = None
      /\ moved' = FALSE
      /\ UNCHANGED <<mounted, currentNumber, saveCallbacks, strokeStyle, surface,
                     loaded, nextCalls, lastYield, vetoSince>>

OnMouseDown(e) ==
  /\ canDraw' = TRUE
  /\ xstartPosition' = e.clientX - xCorrection(e)
  /\ ystartPosition' = e.clientY - yCorrection(e)
  /\ lastEvent' = "down"
  /\ refreshes' = 0
  /\ hDown' = Local(e)
  /\ hMove' = None
  /\ UNCHANGED <<mounted, boxes, currentBox, currentColor, currentNumber,
                 saveCallbacks, strokeStyle, surface, loaded, overlays, invoked,
                 nextCalls, lastYield, moved, vetoSince>>

\* if (!this.canDraw) return;
IgnoreMove ==
  /\ lastEvent' = "move"
  /\ refreshes' = 0
  /\ UNCHANGED <<mounted, progVars, strokeStyle, surface, loaded, overlays,
                 invoked, nextCalls, lastYield, hDown, hMove, moved, vetoSince>>

\* the rest of drawRectangle
DrawBox(e) ==
       LET p1 == Refresh(Pen, loaded)
           unset == p1.currentColor = Undefined
           gen == GenNext(currentNumber)
           p2 == IF unset THEN SetColor(gen.value, p1) ELSE p1
           width == NumSub(NumSub(e.clientX, xstartPosition), xCorrection(e))
           height == NumSub(NumSub(e.clientY, ystartPosition), yCorrection(e))
           p3 == StrokeRect(xstartPosition, ystartPosition, width, height, p2)
       IN  /\ currentNumber' = IF unset THEN gen.currentNumber ELSE currentNumber
           /\ nextCalls' = IF unset THEN nextCalls + 1 ELSE nextCalls
           /\ lastYield' = IF unset THEN gen.value ELSE lastYield
           /\ surface' = p3.surface
           /\ strokeStyle' = p3.strokeStyle
           /\ currentColor' = p3.currentColor
           /\ currentBox' = Box(xstartPosition, ystartPosition, width, height,
                                p3.currentColor)
           /\ lastEvent' = "move"
           /\ refreshes' = 1
           /\ hMove' = Local(e)
           /\ moved' = TRUE
           /\ UNCHANGED <<mounted, boxes, xstartPosition, ystartPosition, canDraw,
                          saveCallbacks, loaded, overlays, invoked, hDown, vetoSince>>

\* A handler without the canDraw guard.
DrawRectangleAlways(e) == DrawBox(e)

DrawRectangle(e) == IF ~canDraw THEN IgnoreMove ELSE DrawBox(e)

OnDraw(e) == DrawRectangle(e)

\* ------------------------------------------------------------ specifications
Images == {1}

\* The pointer events whose position relative to the canvas is in the set points.
EventsAt(points) ==
  {Event(p[1] + o[1], p[2] + o[2], o[1], o[2]) : p \in points, o \in Offsets}

Grid == {<<0, 0>>, <<1, 0>>, <<0, 1>>}
Diagonal == {<<0, 0>>, <<1, 1>>}

Pushed == {boxes[i].image : i \in {j \in 1..Len(boxes) : ~isBox(boxes[j])}}
HasOverlayListener == \E i \in 1..Len(saveCallbacks) : saveCallbacks[i] = "overlay"

CallSetPicture ==
  \E image \in Images \ Pushed :
    /\ Len(boxes) < MaxBoxes
    /\ SetPicture(image)

FireLoad == \E image \in Pushed \ loaded : OnLoad(image)

CallAddSaveListener ==
  \E callback \in ListenerKinds :
    /\ Len(saveCallbacks) < MaxListeners
    /\ AddSaveListener(callback)

MouseDown(points) == \E e \in EventsAt(points) : mounted /\ OnMouseDown(e)

MouseMove(points, calls) ==
  \E e \in EventsAt(points) :
    /\ mounted
    /\ canDraw /\ currentColor = Undefined => nextCalls < calls
    /\ OnDraw(e)

MouseUp(items) ==
  \E out \in Outcomes :
    /\ mounted
    /\ currentBox # NoItem => Len(boxes) < items
    /\ HasOverlayListener => Len(overlays) < MaxOverlays
    /\ OnMouseUp(out)

\* The canvas with save listeners; drags between two points.
Next ==
  \/ Setup
  \/ CallAddSaveListener
  \/ MouseDown(Diagonal)
  \/ MouseMove(Diagonal, MaxCalls)
  \/ MouseUp(MaxBoxes)

Spec == Init /\ [][Next]_vars

\* A picture and no listener; drags between any two points of the grid.
NextDraw ==
  \/ Setup
  \/ CallSetPicture
  \/ FireLoad
  \/ MouseDown(Grid)
  \/ MouseMove(Grid, MaxBoxes + 1)
  \/ MouseUp(MaxBoxes)

SpecDraw == Init /\ [][NextDraw]_vars

\* No listener and no picture; many drags between two points.
NextCycle ==
  \/ Setup
  \/ MouseDown(Diagonal)
  \/ MouseMove(Diagonal, MaxDrags)
  \/ MouseUp(MaxDrags)

SpecCycle == Init /\ [][NextCycle]_vars

\* The canvas as Main sets it up: a picture and save listeners; drags between two points.
NextHost ==
  \/ Setup
  \/ CallSetPicture
  \/ FireLoad
  \/ CallAddSaveListener
  \/ MouseDown(Diagonal)
  \/ MouseMove(Diagonal, MaxCalls)
  \/ MouseUp(MaxBoxes)

SpecHost == Init /\ [][NextHost]_vars

\* ------------------------------------------------------------ claims
Rects(items) == {i \in 1..Len(items) : isBox(items[i])}
Last(seq) == seq[Len(seq)]

\* The palette as the claims spell it, indexed from 0.
PaletteAt(k) ==
  CASE k % 4 = 0 -> "blue"
    [] k % 4 = 1 -> "red"
    [] k % 4 = 2 -> "yellow"
    [] k % 4 = 3 -> "green"

\* C1: with no save listener registered, a pointer-up that ends pointer-down at
\* (dx,dy) followed by one or more pointer-moves appends exactly one rectangle to the
\* committed list: x,y = (dx,dy), width,height = (lastMoveX - dx, lastMoveY - dy),
\* whatever the positions (zero and negative extents included).
C1_DragAppendsOneRectangle ==
  [][ (lastEvent' = "up" /\ saveCallbacks = <<>> /\ hDown # None /\ hMove # None)
      => /\ Len(boxes') = Len(boxes) + 1
         /\ SubSeq(boxes', 1, Len(boxes)) = boxes
         /\ isBox(Last(boxes'))
         /\ Last(boxes').posX = hDown[1]
         /\ Last(boxes').posY = hDown[2]
         /\ Last(boxes').width = hMove[1] - hDown[1]
         /\ Last(boxes').height = hMove[2] - hDown[2] ]_vars

\* A drag to the left has been committed after a drag that did not leave its anchor.
C1_Witness ==
  /\ lastEvent = "up"
  /\ saveCallbacks = <<>>
  /\ Len(boxes) = 2
  /\ isBox(boxes[1]) /\ boxes[1].width = 0 /\ boxes[1].height = 0
  /\ isBox(boxes[2]) /\ boxes[2].width < 0 /\ boxes[2].posX = 1

\* C2: while a listener that returns false for every box is registered, no sequence
\* of pointer events adds a rectangle to the committed list: registered on the empty
\* list, the list contains no rectangle after any number of drags.
C2_VetoKeepsListEmpty ==
  vetoSince # -1 => Cardinality(Rects(boxes)) = vetoSince

\* A drag was completed and refused by a listener registered on the empty list.
C2_Witness ==
  /\ vetoSince = 0
  /\ lastEvent = "up"
  /\ invoked # <<>>
  /\ Last(invoked).result = "false"
  /\ currentBox # NoItem

\* C3: a pointer-up calls the listeners in registration order from the first, stops
\* at the first that returns false or throws, and appends a rectangle only if every
\* registered listener was called and returned true.
C3_OrderAndShortCircuit ==
  [][ lastEvent' = "up"
      => /\ Len(invoked') <= Len(saveCallbacks)
         /\ \A j \in 1..Len(invoked') : invoked'[j].listener = j
         /\ \A j \in 1..(Len(invoked') - 1) : invoked'[j].result = "true"
         /\ Len(invoked') < Len(saveCallbacks)
              => invoked' # <<>> /\ Last(invoked').result # "true"
         /\ boxes' # boxes
              => /\ Len(invoked') = Len(saveCallbacks)
                 /\ \A j \in 1..Len(invoked') : invoked'[j].result = "true"
         /\ (invoked' # <<>> /\ Last(invoked').result # "true") => boxes' = boxes ]_vars

\* The first of two listeners refused a drawn box and the second was not called.
C3_Witness ==
  /\ lastEvent = "up"
  /\ Len(saveCallbacks) = 2
  /\ Len(invoked) = 1
  /\ invoked[1].result = "false"
  /\ currentBox # NoItem

\* C4: a listener that throws ends the pointer-up as one that returns false does:
\* the handler completes, the committed list is unchanged, canDraw is false, the
\* anchor is Infinity and the current colour is undefined.
C4_ThrowIsVeto ==
  [][ (lastEvent' = "up" /\ invoked' # <<>> /\ Last(invoked').result = "throw")
      => LET asFalse == [i \in 1..Len(saveCallbacks) |->
                           IF i < Len(invoked') THEN "true" ELSE "false"]
             sv == SaveCurrentBox(asFalse)
         IN  /\ boxes' = boxes
             /\ boxes' = sv.boxes
             /\ currentBox' = sv.currentBox
             /\ canDraw' = FALSE
             /\ xstartPosition' = Infinity
             /\ ystartPosition' = Infinity
             /\ currentColor' = Undefined ]_vars

\* A listener threw on a box that a drag had drawn.
C4_Witness ==
  /\ lastEvent = "up"
  /\ invoked # <<>>
  /\ Last(invoked).result = "throw"
  /\ currentBox # NoItem
  /\ currentColor = Undefined

\* C5: whenever canDraw is false (Idle) the provisional slot currentBox is empty: a
\* pointer-up clears it whether the listeners accept, reject or throw.
C5_IdleSlotEmpty == ~canDraw => currentBox = NoItem

\* C6: a rectangle the listeners rejected is never committed by a later pointer-up:
\* every pointer-up that appends a rectangle ends a drag in which a pointer-move
\* produced it.
C6_RejectedIsDiscarded ==
  [][ (lastEvent' = "up" /\ boxes' # boxes) => moved ]_vars

\* C7: a pointer-up that finds the provisional slot empty leaves the committed list
\* unchanged and calls no save listener.
C7_EmptyUpCallsNoListener ==
  [][ (lastEvent' = "up" /\ currentBox = NoItem)
      => boxes' = boxes /\ invoked' = <<>> ]_vars

\* C8: a pointer-move received while canDraw is false changes neither the committed
\* list, the provisional slot, the anchor, the current colour nor the generator, and
\* performs no render pass: nothing is cleared or stroked.
C8_IdleMoveIsNoOp ==
  [][ (lastEvent' = "move" /\ ~canDraw)
      => /\ UNCHANGED <<boxes, currentBox, xstartPosition, ystartPosition, canDraw,
                        currentColor, currentNumber, nextCalls>>
         /\ UNCHANGED <<surface, strokeStyle>>
         /\ refreshes' = 0 ]_vars

\* A pointer-move arrived after a pointer-up, with a rectangle committed.
C8_Witness ==
  /\ lastEvent = "move"
  /\ ~canDraw
  /\ xstartPosition = Infinity
  /\ Rects(boxes) # {}
  /\ refreshes = 0

\* C9: the k-th call of next() on the generator returns palette[k mod 4] of
\* [blue, red, yellow, green], for every k >= 1: red first, blue at the 4th call,
\* and every call yields a colour.
C9_KthColor ==
  nextCalls >= 1 => lastYield = PaletteAt(nextCalls) /\ lastYield # Undefined

\* The generator has gone round the palette: the 5th call returned red again.
C9_Witness == nextCalls = 5 /\ lastYield = "red" /\ currentColor = "red"

\* C10: within a drag the generator advances on the first pointer-move and on no
\* other step; a pointer-up clears the current colour; so with no listener the k-th
\* committed rectangle has colour palette[k mod 4].
C10_OneColorPerDrag ==
  /\ [](saveCallbacks = <<>>
         => \A k \in 1..Len(boxes) : isBox(boxes[k]) /\ boxes[k].color = PaletteAt(k))
  /\ [][ /\ nextCalls' = IF lastEvent' = "move" /\ canDraw /\ ~moved
                          THEN nextCalls + 1 ELSE nextCalls
         /\ lastEvent' = "up" => currentColor' = Undefined
         /\ (lastEvent' = "move" /\ canDraw /\ moved)
              => currentColor' = currentColor /\ currentBox'.color = currentBox.color
       ]_vars

\* Five drags are committed, the fifth in red again, and a sixth is under way.
C10_Witness ==
  /\ Len(boxes) = 5
  /\ boxes[4].color = "blue"
  /\ boxes[5].color = "red"
  /\ nextCalls = 5

\* C11 (as claimed): with no listener, a pointer-down followed by a pointer-up with no
\* pointer-move between them appends a rectangle whose colour is undefined.
C11_EmptyDragCommitsUncoloured ==
  [][ (lastEvent' = "up" /\ saveCallbacks = <<>> /\ hDown # None /\ ~moved)
      => /\ Len(boxes') = Len(boxes) + 1
         /\ Last(boxes').color = Undefined ]_vars

\* C11 (amended): with no listener, a pointer-down followed by a pointer-up with no
\* pointer-move between them leaves the colour unset and appends nothing: the
\* committed list is unchanged.
C11_EmptyDragCommitsNothing ==
  [][ (lastEvent' = "up" /\ saveCallbacks = <<>> /\ hDown # None /\ ~moved)
      => /\ currentColor = Undefined
         /\ currentColor' = Undefined
         /\ currentBox' = NoItem
         /\ boxes' = boxes ]_vars

\* A pointer-down has arrived after a committed drag, and no pointer-move since.
C11_Witness ==
  /\ lastEvent = "down"
  /\ saveCallbacks = <<>>
  /\ ~moved
  /\ currentColor = Undefined
  /\ Rects(boxes) # {}

\* C12: a pointer-down received while a drag has a provisional rectangle is a no-op:
\* the anchor keeps the position of the first pointer-down.
C12_SecondDownKeepsAnchor ==
  [][ (lastEvent' = "down" /\ canDraw /\ moved /\ currentBox # NoItem)
      => UNCHANGED <<xstartPosition, ystartPosition>> ]_vars

\* C13: the committed list only grows at its end: pointer-down, pointer-move and the
\* load callback leave it unchanged, a pointer-up appends at most one rectangle,
\* setPicture appends exactly one image; no entry is removed, moved or changed.
C13_AppendOnly ==
  [][ /\ Len(boxes') \in {Len(boxes), Len(boxes) + 1}
      /\ SubSeq(boxes', 1, Len(boxes)) = boxes
      /\ lastEvent' \in {"down", "move", "load", "setup"} => boxes' = boxes
      /\ (lastEvent' = "up" /\ boxes' # boxes) => isBox(Last(boxes'))
      /\ lastEvent' = "setPicture"
           => Len(boxes') = Len(boxes) + 1 /\ ~isBox(Last(boxes')) ]_vars

\* A picture was pushed after a rectangle had been committed.
C13_Witness ==
  /\ lastEvent = "setPicture"
  /\ Len(boxes) = 2
  /\ isBox(boxes[1])
  /\ ~isBox(boxes[2])

\* What the committed items look like when painted in insertion order.
RECURSIVE Painted(_, _)
Painted(items, ready) ==
  IF items = <<>> THEN <<>>
  ELSE LET item == items[Len(items)]
           below == Painted(SubSeq(items, 1, Len(items) - 1), ready)
       IN  IF isBox(item)
           THEN Append(below, [op |-> "strokeRect", x |-> item.posX, y |-> item.posY,
                               w |-> item.width, h |-> item.height, style |-> item.color])
           ELSE IF item.image \in ready
                THEN Append(below, [op |-> "drawImage", image |-> item.image])
                ELSE below

\* C14: after every render pass, from a pointer-move or from the load callback, the
\* surface shows the committed items in insertion order and, when a drag with a
\* provisional rectangle is under way, that rectangle stroked on top of them.
C14_RenderShowsProvisional ==
  refreshes = 1
    => surface = Painted(boxes, loaded) \o
                 (IF canDraw /\ currentBox # NoItem
                  THEN <<[op |-> "strokeRect", x |-> currentBox.posX,
                          y |-> currentBox.posY, w |-> currentBox.width,
                          h |-> currentBox.height, style |-> currentBox.color]>>
                  ELSE <<>>)

\* C15: a render pass leaves the current colour and the context's stroke colour as
\* they were before it, whatever the committed list, also when the current colour is
\* undefined (Idle).
C15_RenderRestoresColor ==
  [][ lastEvent' = "load"
      => currentColor' = currentColor /\ strokeStyle' = strokeStyle ]_vars

\* C16: a render pass that follows a render pass with nothing in between leaves the
\* surface, the stroke colour and the current colour as the first one left them.
C16_RenderIdempotent ==
  LET once == Refresh(Pen, loaded)
      twice == Refresh(once, loaded)
  IN  /\ twice = once
      /\ refreshes = 1 /\ lastEvent = "load" => once = Pen

\* A render pass has painted a picture and a rectangle during a drag.
C16_Witness ==
  /\ refreshes = 1
  /\ canDraw
  /\ currentColor # Undefined
  /\ Len(Refresh(Pen, loaded).surface) = 2
  /\ loaded # {}
  /\ Rects(boxes) # {}

\* C17: the load callback of the picture, whenever it comes, performs exactly one
\* render pass and leaves the committed list, the provisional slot, canDraw, the
\* anchor, the current colour and the generator as they were; what the pointer
\* handlers do to these does not depend on anything else it touches.
C17_LoadOnlyRenders ==
  [][ lastEvent' = "load"
      => /\ refreshes' = 1
         /\ UNCHANGED <<boxes, currentBox, canDraw, xstartPosition, ystartPosition,
                        currentColor, currentNumber, nextCalls, saveCallbacks>> ]_vars

\* The picture arrived in the middle of a drag, over a committed rectangle.
C17_Witness ==
  /\ lastEvent = "load"
  /\ canDraw
  /\ currentBox # NoItem
  /\ Rects(boxes) # {}
  /\ refreshes = 1

\* No listener registered after an overlay listener can refuse the box.
OverlayListenersLast ==
  \A i \in 1..Len(saveCallbacks) :
    saveCallbacks[i] = "overlay"
      => \A j \in i..Len(saveCallbacks) : saveCallbacks[j] = "overlay"

\* C18 (as claimed): for every chain of listeners, a pointer-up that adds an overlay
\* appends to the committed list the rectangle the overlay was made for.
C18_OverlayOnlyOnCommit ==
  [][ (lastEvent' = "up" /\ overlays' # overlays)
      => boxes' = Append(boxes, currentBox) ]_vars

\* C18 (amended): when no listener registered after the overlay listener can refuse
\* the box (as in Main, where it is the only listener), a pointer-up that adds an
\* overlay appends to the committed list the rectangle the overlay was made for.
C18_OverlayOfLastListener ==
  [][ (lastEvent' = "up" /\ overlays' # overlays /\ OverlayListenersLast)
      => /\ boxes' = Append(boxes, currentBox)
         /\ isBox(currentBox)
         /\ \A k \in (Len(overlays) + 1)..Len(overlays') :
              overlays'[k] = Overlay(currentBox) ]_vars

\* An overlay was added by the second of two listeners, for the box just committed.
C18_Witness ==
  /\ lastEvent = "up"
  /\ saveCallbacks = <<"ask", "overlay">>
  /\ Len(overlays) = 1
  /\ Rects(boxes) # {}
  /\ overlays[1] = Overlay(Last(boxes))
  /\ Last(boxes).width < 0

\* C19: under pointer events, from the initial state on: while canDraw is true the
\* anchor is the position of a pointer-down and not Infinity, and every rectangle in
\* the provisional slot or the committed list has finite posX, posY, width and
\* height and a colour of the palette.
Finite(n) == 0 - Infinity < n /\ n < Infinity
WellFormed(box) ==
  /\ Finite(box.posX) /\ Finite(box.posY)
  /\ Finite(box.width) /\ Finite(box.height)
  /\ box.color \in {PaletteAt(k) : k \in 0..3}

C19_WellFormed ==
  /\ canDraw => /\ Finite(xstartPosition) /\ Finite(ystartPosition)
                /\ <<xstartPosition, ystartPosition>> = hDown
  /\ isBox(currentBox) => WellFormed(currentBox)
  /\ \A i \in Rects(boxes) : WellFormed(boxes[i])

\* A second drag is under way, to the left and upwards, over a committed rectangle.
C19_Witness ==
  /\ canDraw
  /\ isBox(currentBox)
  /\ currentBox.width < 0
  /\ currentBox.height < 0
  /\ Rects(boxes) # {}

====
